---- MODULE Spec2Model ----
(***************************************************************************)
(* tql: the error model (tql_macros/src/error.rs) and the lint passes of   *)
(* the type analyzer (tql_macros/src/type_analyzer.rs).                    *)
(*                                                                         *)
(* State: the schema registry (singleton()), the placeholder table of the  *)
(* query sites (lint_singleton()), the analyze_done flag of                *)
(* exit_lint_attrs, and the diagnostics handed to the compiler session.    *)
(* `op` holds the call in progress: its inputs, its position and, once it  *)
(* has run, what it returned.                                              *)
(***************************************************************************)
EXTENDS Integers, Sequences, FiniteSets, TLC

VARIABLES sql_tables, calls, analyze_done, sess, op

vars == <<sql_tables, calls, analyze_done, sess, op>>

(***************************************************************************)
(* Bounds of the model.                                                    *)
(***************************************************************************)
\* longest list of diagnostics handed to res
MaxErrors == 3
\* most fields of a generated table declaration
MaxFields == 2
\* most placeholders recorded for a query site
MaxPlaceholders == 2
\* most elements of the argument vector of a query/execute call
MaxElements == 2

\* sequences over S of length at most n
SeqUpTo(S, n) == UNION {[1..k -> S] : k \in 0..n}

\* the indices of s, as a set
Indices(s) == 1..Len(s)

RECURSIVE Concat(_)
\* the concatenation of a sequence of sequences
Concat(ss) == IF ss = <<>> THEN <<>> ELSE Head(ss) \o Concat(Tail(ss))

(***************************************************************************)
(* error.rs                                                                *)
(***************************************************************************)
\* Option<String>::None of Error.code
NoCode == "None"

\* enum ErrorType
ErrorType == {"Error", "Help", "Note", "Warning"}

\* a source span: lo, hi and the expansion it comes from
MkSpan(lo, hi, expn_id) == [lo |-> lo, hi |-> hi, expn_id |-> expn_id]

\* struct Error
MkError(code, kind, message, position) ==
    [code |-> code, kind |-> kind, message |-> message, position |-> position]

\* Error::new
ErrorNew(message, position) == MkError(NoCode, "Error", message, position)

\* Error::new_help
ErrorNewHelp(message, position) == MkError(NoCode, "Help", message, position)

\* Error::new_note
ErrorNewNote(message, position) == MkError(NoCode, "Note", message, position)

\* Error::new_warning
ErrorNewWarning(message, position) == MkError(NoCode, "Warning", message, position)

\* Error::new_with_code
ErrorNewWithCode(message, position, code) == MkError(code, "Error", message, position)

\* Result::Ok / Result::Err of SqlResult<T>
Ok(result) == [tag |-> "Ok", value |-> <<result>>, errors |-> <<>>]
Err(errors) == [tag |-> "Err", value |-> <<>>, errors |-> errors]

\* a plausible slip: failure decided by the kind of the items
ResByKind(result, errors) ==
    IF \E i \in Indices(errors) : errors[i].kind = "Error" THEN Err(errors) ELSE Ok(result)

\* a plausible slip: the list is handed back without its first item
ResDropFirst(result, errors) ==
    IF errors # <<>> THEN Err(Tail(errors)) ELSE Ok(result)

\* pub fn res
Res(result, errors) ==
    IF errors # <<>> THEN Err(errors) ELSE Ok(result)

(***************************************************************************)
(* state.rs: enum Type, and the types the compiler gives to the arguments. *)
(***************************************************************************)
\* a variant of enum Type; arg is the table or type name the variant carries
MkType(tag, arg) == [tag |-> tag, arg |-> arg]

\* the variants of Type that carry nothing
PlainTypeTags ==
    {"Serial", "I32", "I64", "F32", "F64", "Bool", "String", "ByteString",
     "DateTime", "Date", "Time"}

\* the names a table declaration or a struct can have
StructNames == {"TableSelectExpr", "RelatedTableSelectExpr", "Connection"}

\* the column types that wrap no other type
NonWrapperTypes ==
    {MkType(t, "") : t \in PlainTypeTags}
        \cup {MkType("Custom", n) : n \in StructNames}
        \cup {MkType("UnsupportedType", n) : n \in {"u8"}}

\* the values of enum Type
Types ==
    NonWrapperTypes
        \cup {MkType("Optional", t) : t \in PlainTypeTags}
        \cup {MkType("ForeignKey", n) : n \in StructNames}

\* a TyS of the compiler: sty is the TypeVariants constructor, of what it holds
\* (the IntTy of a TyInt, the sty of the referent of a TyRef, the name of a
\* TyStruct, the instantiation of a TyEnum)
MkTy(sty, of) == [sty |-> sty, of |-> of]

TyI32 == MkTy("TyInt", "TyI32")
TyI64 == MkTy("TyInt", "TyI64")
TyRefStr == MkTy("TyRef", "TyStr")

\* the nullable wrapper Option<T> over an argument type
OptionOf(ty) ==
    MkTy("TyEnum", CASE ty = TyI32 -> "Option<i32>"
                     [] ty = TyI64 -> "Option<i64>"
                     [] ty = TyRefStr -> "Option<&str>"
                     [] OTHER -> "Option<_>")

\* the argument types the verifier is shown
HostTypes ==
    {TyI32, TyI64, MkTy("TyInt", "TyI8"), TyRefStr, MkTy("TyRef", "TyInt"),
     MkTy("TyRef", "TyRef"), MkTy("TyBool", ""), MkTy("TyFloat", "TyF64"),
     OptionOf(TyI32), OptionOf(TyI64), OptionOf(TyRefStr)}
        \cup {MkTy("TyStruct", n) : n \in StructNames}

(***************************************************************************)
(* string.rs: find_near. A name is compared character by character.        *)
(***************************************************************************)
\* the characters of a name, in order
Chars(name) ==
    CASE name = "Table" -> <<"T", "a", "b", "l", "e">>
      [] name = "RelatedTable" -> <<"R", "e", "l", "a", "t", "e", "d", "T", "a", "b", "l", "e">>
      [] name = "Connection" -> <<"C", "o", "n", "n", "e", "c", "t", "i", "o", "n">>
      [] name = "TableSelectExpr" -> <<"T", "a", "b", "l", "e", "S", "e", "l", "e", "c", "t", "E", "x", "p", "r">>
      [] name = "RelatedTableSelectExpr" -> <<"R", "e", "l", "a", "t", "e", "d", "T", "a", "b", "l", "e", "S", "e", "l", "e", "c", "t", "E", "x", "p", "r">>
      [] name = "id" -> <<"i", "d">>
      [] name = "field1" -> <<"f", "i", "e", "l", "d", "1">>
      [] name = "field2" -> <<"f", "i", "e", "l", "d", "2">>
      [] name = "field3" -> <<"f", "i", "e", "l", "d", "3">>
      [] name = "field4" -> <<"f", "i", "e", "l", "d", "4">>
      [] name = "related_field" -> <<"r", "e", "l", "a", "t", "e", "d", "_", "f", "i", "e", "l", "d">>
      [] name = "optional_field" -> <<"o", "p", "t", "i", "o", "n", "a", "l", "_", "f", "i", "e", "l", "d">>
      [] name = "datetime" -> <<"d", "a", "t", "e", "t", "i", "m", "e">>
      [] name = "i64" -> <<"i", "6", "4">>
      [] name = "u8" -> <<"u", "8">>

\* the characters the names are written with, in the order of their code points
Alphabet == <<"1", "2", "3", "4", "6", "8", "C", "E", "R", "S", "T", "_", "a", "b", "c", "d", "e", "f", "i", "l", "m", "n", "o", "p", "r", "s", "t", "u", "x">>

\* the rank of a character in the order of the code points
Ord(c) == CHOOSE i \in Indices(Alphabet) : Alphabet[i] = c

Min2(x, y) == IF x <= y THEN x ELSE y

RECURSIVE LevFill(_, _, _, _)
\* one row of the edit-distance table: cur holds its first cells, prev is the row above
LevFill(prev, ca, b, cur) ==
    IF Len(cur) = Len(prev)
    THEN cur
    ELSE LET c == Len(cur)
             subst == prev[c] + (IF ca = b[c] THEN 0 ELSE 1)
         IN LevFill(prev, ca, b,
                    Append(cur, Min2(Min2(prev[c + 1] + 1, cur[c] + 1), subst)))

RECURSIVE LevRows(_, _, _, _)
\* the rows of the edit-distance table from row i on; the answer is its last cell
LevRows(a, b, i, prev) ==
    IF i > Len(a)
    THEN prev[Len(b) + 1]
    ELSE LevRows(a, b, i + 1, LevFill(prev, a[i], b, <<i>>))

\* the names that occur in the declarations and at the query sites
AllNames ==
    {"Table", "RelatedTable", "Connection", "TableSelectExpr", "RelatedTableSelectExpr",
     "id", "field1", "field2", "field3", "field4", "related_field", "optional_field",
     "datetime", "i64", "u8"}

\* the edit distances of the names, computed once
Distances ==
    [x \in AllNames |-> [y \in AllNames |->
        LevRows(Chars(x), Chars(y), 1, [j \in 1..(Len(Chars(y)) + 1) |-> j - 1])]]

\* the edit distance of two names
LevDistance(x, y) == Distances[x][y]

RECURSIVE LexLess(_, _)
\* a sorts strictly before b
LexLess(a, b) ==
    IF b = <<>> THEN FALSE
    ELSE IF a = <<>> THEN TRUE
    ELSE IF Head(a) # Head(b) THEN Ord(Head(a)) < Ord(Head(b))
    ELSE LexLess(Tail(a), Tail(b))

\* the largest edit distance of a near match
NearThreshold == 3

\* find_near: the nearest of `names` to `name` within the threshold, the smallest
\* of the nearest ones; <<>> is None, <<n>> is Some(n)
FindNear(name, names) ==
    LET near == {n \in names : LevDistance(name, n) <= NearThreshold}
        best == {n \in near : \A m \in near : LevDistance(name, n) <= LevDistance(name, m)}
    IN IF near = {}
       THEN <<>>
       ELSE <<CHOOSE n \in best : \A m \in best : m = n \/ LexLess(Chars(n), Chars(m))>>

(***************************************************************************)
(* type_analyzer.rs: same_type, check_type                                 *)
(***************************************************************************)
\* a plausible slip: the Serial alternative of the i32 arm is forgotten
SameTypeNoSerial(field_type, expected_type) ==
    CASE expected_type = TyI32 -> field_type = MkType("I32", "")
      [] expected_type = TyI64 -> field_type = MkType("I64", "")
      [] expected_type.sty = "TyRef" ->
            IF expected_type.of = "TyStr" THEN field_type = MkType("String", "") ELSE FALSE
      [] OTHER -> FALSE

\* fn same_type
SameType(field_type, expected_type) ==
    CASE expected_type.sty = "TyInt" /\ expected_type.of = "TyI32" ->
            field_type = MkType("I32", "") \/ field_type = MkType("Serial", "")
      [] expected_type.sty = "TyInt" /\ expected_type.of = "TyI64" ->
            field_type = MkType("I64", "")
      [] expected_type.sty = "TyRef" ->
            IF expected_type.of = "TyStr" THEN field_type = MkType("String", "") ELSE FALSE
      [] expected_type.sty = "TyStruct" -> FALSE
      [] OTHER -> FALSE

\* a diagnostic handed to the session: the method of cx.sess() called, and its arguments
Emit(method, position, message, code) ==
    [method |-> method, position |-> position, message |-> message, code |-> code]

\* a plausible slip: the note is put at the argument instead of the call
CheckTypeNoteAtArgument(field_type, expected_type, position, note_position) ==
    IF ~SameType(field_type, expected_type)
    THEN << Emit("span_err_with_code", position,
                 <<"mismatched types", field_type, expected_type>>, "E0308"),
            Emit("fileline_note", position,
                 <<"in this expansion of sql! (defined in tql)">>, NoCode) >>
    ELSE <<>>

\* fn check_type: the diagnostics it sends to the session, in order
CheckType(field_type, expected_type, position, note_position) ==
    IF ~SameType(field_type, expected_type)
    THEN << Emit("span_err_with_code", position,
                 <<"mismatched types", field_type, expected_type>>, "E0308"),
            Emit("fileline_note", note_position,
                 <<"in this expansion of sql! (defined in tql)">>, NoCode) >>
    ELSE <<>>

(***************************************************************************)
(* state.rs: the schema registry. type_analyzer.rs: analyze_table_types,   *)
(* span_errors, exit_lint_attrs.                                           *)
(***************************************************************************)
\* a field of a table: its name, its Type (node) and the span of its declaration
MkField(name, node, span) == [name |-> name, node |-> node, span |-> span]

\* the elements of a sequence, as a set
Range(s) == {s[i] : i \in Indices(s)}

\* SqlFields::get: <<>> is None, <<f>> is Some(f)
FieldsGet(fields, name) ==
    IF \E i \in Indices(fields) : fields[i].name = name
    THEN <<fields[CHOOSE i \in Indices(fields) : fields[i].name = name]>>
    ELSE <<>>

RECURSIVE SortedKeys(_)
\* the keys of a map in the order the map iterates them: ascending
SortedKeys(keys) ==
    IF keys = {}
    THEN <<>>
    ELSE LET k == CHOOSE x \in keys : \A y \in keys : y = x \/ LexLess(Chars(x), Chars(y))
         IN <<k>> \o SortedKeys(keys \ {k})

\* analyzer::unknown_table_error: the errors it pushes for an unregistered table
UnknownTableError(table_name, position, tables) ==
    LET near == FindNear(table_name, DOMAIN tables)
    IN <<ErrorNew(<<"does not name an SQL table", table_name>>, position)>>
        \o (IF near = <<>> THEN <<>>
            ELSE <<ErrorNewHelp(<<"did you mean", near[1]>>, position)>>)
        \o <<ErrorNewHelp(<<"did you forget to add the attribute on the struct", table_name>>,
                          position)>>

\* a plausible slip: the unsupported type is reported without its error code
AnalyzeFieldNoCode(field, tables) ==
    CASE field.node.tag = "Custom" ->
            IF field.node.arg \notin DOMAIN tables
            THEN UnknownTableError(field.node.arg, field.span, tables)
            ELSE <<>>
      [] field.node.tag = "UnsupportedType" ->
            <<ErrorNew(<<"Use of unsupported type name", field.node.arg>>, field.span)>>
      [] OTHER -> <<>>

\* the errors analyze_table_types pushes for one field
AnalyzeField(field, tables) ==
    CASE field.node.tag = "Custom" ->
            IF field.node.arg \notin DOMAIN tables
            THEN UnknownTableError(field.node.arg, field.span, tables)
            ELSE <<>>
      [] field.node.tag = "UnsupportedType" ->
            <<ErrorNewWithCode(<<"Use of unsupported type name", field.node.arg>>,
                               field.span, "E0412")>>
      [] OTHER -> <<>>

\* primary_key_count of analyze_table_types: the number of Serial fields
PrimaryKeyCount(fields) ==
    Cardinality({i \in Indices(fields) : fields[i].node = MkType("Serial", "")})

RECURSIVE FirstFault(_, _)
\* the errors of the first field of `fields` that has any
FirstFault(fields, tables) ==
    IF fields = <<>> THEN <<>>
    ELSE IF AnalyzeField(Head(fields), tables) # <<>> THEN AnalyzeField(Head(fields), tables)
    ELSE FirstFault(Tail(fields), tables)

\* a plausible slip: the analysis returns at the first faulty field
AnalyzeTableTypesFirstFault(fields, tables) ==
    Res("unit", FirstFault(fields, tables))

\* fn analyze_table_types; primary_key_count is counted and not read
AnalyzeTableTypes(fields, tables) ==
    Res("unit", Concat([i \in Indices(fields) |-> AnalyzeField(fields[i], tables)]))

\* the call of the session span_errors makes for one Error
SpanError(error) ==
    CASE error.kind = "Error" /\ error.code # NoCode ->
            Emit("span_err_with_code", error.position, error.message, error.code)
      [] error.kind = "Error" /\ error.code = NoCode ->
            Emit("span_err", error.position, error.message, NoCode)
      [] error.kind = "Help" ->
            Emit("fileline_help", error.position, error.message, NoCode)
      [] error.kind = "Note" ->
            Emit("fileline_note", error.position, error.message, NoCode)
      [] error.kind = "Warning" ->
            Emit("span_warn", error.position, error.message, NoCode)

\* fn span_errors: the diagnostics it sends to the session, in order
SpanErrors(errors) == [i \in Indices(errors) |-> SpanError(errors[i])]

\* the table macro deposits a table in the registry, before the late pass runs
Register(table_name, fields) ==
    /\ op.name # "check_expr"
    /\ table_name \notin DOMAIN sql_tables
    /\ sql_tables' = (table_name :> fields) @@ sql_tables
    /\ op' = [name |-> "register", pc |-> "done", table_name |-> table_name]
    /\ UNCHANGED <<calls, analyze_done, sess>>

\* a plausible slip: the flag is not consulted and every invocation analyses
ExitLintAttrsAlways ==
    \E order \in {SortedKeys(DOMAIN sql_tables)} :
    LET done == analyze_done
        results == [i \in Indices(order) |->
                        AnalyzeTableTypes(sql_tables[order[i]], sql_tables)]
        spanned == Concat([i \in Indices(order) |->
                        IF results[i].tag = "Err" THEN SpanErrors(results[i].errors)
                        ELSE <<>>])
    IN /\ op.name # "check_expr"
       /\ sess' = sess \o spanned
       /\ analyze_done' = TRUE
       /\ op' = [name |-> "exit_lint_attrs", pc |-> "done", done |-> done,
                 tables |-> order, results |-> results]
       /\ UNCHANGED <<sql_tables, calls>>

\* SqlAttrError::exit_lint_attrs. op keeps the flag it read and, when the
\* analysis ran, the tables in the order visited with the result of each;
\* `order` is the one order in which sql_tables.values() yields the tables.
ExitLintAttrs ==
    \E order \in {SortedKeys(DOMAIN sql_tables)} :
    LET done == analyze_done
        results == [i \in Indices(order) |->
                        AnalyzeTableTypes(sql_tables[order[i]], sql_tables)]
        spanned == Concat([i \in Indices(order) |->
                        IF results[i].tag = "Err" THEN SpanErrors(results[i].errors)
                        ELSE <<>>])
    IN /\ op.name # "check_expr"
       /\ sess' = IF ~done THEN sess \o spanned ELSE sess
       /\ analyze_done' = TRUE
       /\ op' = [name |-> "exit_lint_attrs", pc |-> "done", done |-> done,
                 tables |-> IF ~done THEN order ELSE <<>>,
                 results |-> IF ~done THEN results ELSE <<>>]
       /\ UNCHANGED <<sql_tables, calls>>

(***************************************************************************)
(* The table declarations the early pass is run on: every declaration of   *)
(* at most MaxFields fields.                                               *)
(***************************************************************************)
\* the tables that get declared
TableNames == {"Table", "RelatedTable"}

\* the types a declared field has
FieldTypes ==
    {MkType("Serial", ""), MkType("String", ""), MkType("Custom", "RelatedTable"),
     MkType("ForeignKey", "RelatedTable"), MkType("UnsupportedType", "u8")}

\* the name of the k-th field of a declaration
FieldNameAt(k) == <<"field1", "field2", "field3", "field4">>[k]

\* where the declaration of a table starts
DeclLo(table_name) == IF table_name = "Table" THEN 100 ELSE 200

\* the span of the k-th field of a declaration
FieldSpan(table_name, k) ==
    MkSpan(DeclLo(table_name) + 10 * k, DeclLo(table_name) + 10 * k + 5, "NO_EXPANSION")

\* the fields of the declaration of table_name whose field types are `types`
Declaration(table_name, types) ==
    [k \in Indices(types) |-> MkField(FieldNameAt(k), types[k], FieldSpan(table_name, k))]

(***************************************************************************)
(* state.rs: the placeholder table. type_analyzer.rs: argument_types,      *)
(* check_expr.                                                             *)
(***************************************************************************)
\* a placeholder of a query site: the column it is compared with, and the
\* sub-span of its argument
MkPlaceholder(name, low, high) == [name |-> name, low |-> low, high |-> high]

\* the sub-span of the k-th argument of the sql! call that starts at lo
ArgLow(lo, k) == lo + 10 * k
ArgHigh(lo, k) == lo + 10 * k + 5

\* the sql! macro records the placeholders of the query it expands at lo
RecordCall(lo, table_name, names) ==
    /\ op.name # "check_expr"
    /\ lo \notin DOMAIN calls
    /\ calls' = (lo :> [table_name |-> table_name,
                        arguments |-> [k \in Indices(names) |->
                            MkPlaceholder(names[k], ArgLow(lo, k), ArgHigh(lo, k))]])
                @@ calls
    /\ op' = [name |-> "record", pc |-> "done", lo |-> lo]
    /\ UNCHANGED <<sql_tables, analyze_done, sess>>

\* expressions of the HIR: a path (any expression that is neither an address-of
\* nor an array) with the type the compiler gave it, &e, [e1, ..., en], and
\* receiver.name(arguments) where arguments[1] of the code is arguments[2] here
PathExpr(ty) == [node |-> "ExprPath", ty |-> ty]
AddrOf(e) == [node |-> "ExprAddrOf", of |-> e]
VecExpr(elements) == [node |-> "ExprVec", elements |-> elements]
MethodCall(name, arguments, span) ==
    [node |-> "ExprMethodCall", name |-> name, arguments |-> arguments, span |-> span]

RECURSIVE ElementTypes(_)
\* the loop of argument_types: the type of e for each element &e, in order
ElementTypes(vector) ==
    IF vector = <<>>
    THEN <<>>
    ELSE (IF Head(vector).node = "ExprAddrOf" THEN <<Head(vector).of.ty>> ELSE <<>>)
            \o ElementTypes(Tail(vector))

\* fn argument_types
ArgumentTypes(arguments) ==
    IF arguments.node = "ExprAddrOf" /\ arguments.of.node = "ExprVec"
    THEN ElementTypes(arguments.of.elements)
    ELSE <<>>

\* a plausible slip: a column the table does not have is compared as an I32 one
CheckPlaceholderNoLookup(fields, table, i, typ, span) ==
    LET field == fields.arguments[i]
        position == MkSpan(field.low, field.high, "NO_EXPANSION")
        column == FieldsGet(table, field.name)
    IN IF field.name = "i64"
       THEN CheckType(MkType("I64", ""), typ, position, span)
       ELSE CheckType(IF column # <<>> THEN column[1].node ELSE MkType("I32", ""),
                      typ, position, span)

\* a plausible slip: the synthetic name i64 is looked up in the table like a column
CheckPlaceholderNoI64(fields, table, i, typ, span) ==
    LET field == fields.arguments[i]
        position == MkSpan(field.low, field.high, "NO_EXPANSION")
        column == FieldsGet(table, field.name)
        field_names == {fields.arguments[k].name : k \in Indices(fields.arguments)}
        near == FindNear(field.name, field_names)
    IN IF column # <<>>
       THEN CheckType(column[1].node, typ, position, span)
       ELSE <<Emit("span_err", position,
                   <<"attempted access of field", field.name, fields.table_name>>, NoCode)>>
            \o (IF near # <<>>
                THEN <<Emit("span_help", position, <<"did you mean", near[1]>>, NoCode)>>
                ELSE <<>>)

\* the body of the loop of check_expr for the i-th type: the diagnostics sent
\* to the session, in order
CheckPlaceholder(fields, table, i, typ, span) ==
    LET field == fields.arguments[i]
        position == MkSpan(field.low, field.high, "NO_EXPANSION")
        column == FieldsGet(table, field.name)
        field_names == {fields.arguments[k].name : k \in Indices(fields.arguments)}
        near == FindNear(field.name, field_names)
    IN IF field.name = "i64"
       THEN CheckType(MkType("I64", ""), typ, position, span)
       ELSE IF column # <<>>
       THEN CheckType(column[1].node, typ, position, span)
       ELSE <<Emit("span_err", position,
                   <<"attempted access of field", field.name, fields.table_name>>, NoCode)>>
            \o (IF near # <<>>
                THEN <<Emit("span_help", position, <<"did you mean", near[1]>>, NoCode)>>
                ELSE <<>>)

\* the calls check_expr looks at
IsQueryCall(expr) == expr.node = "ExprMethodCall" /\ expr.name \in {"query", "execute"}

\* the types check_expr has extracted when it reaches the loop
TypesOf(expr) == ArgumentTypes(expr.arguments[2])

\* check_expr reaches the loop over the types
ReachesLoop(expr) ==
    /\ IsQueryCall(expr)
    /\ Len(expr.arguments) >= 2
    /\ expr.span.lo \in DOMAIN calls
    /\ calls[expr.span.lo].table_name \in DOMAIN sql_tables

\* the number of iterations of the loop that complete: the next one, if there
\* is a type left, indexes past the end of fields.arguments
Completed(expr) ==
    LET n == Len(TypesOf(expr))
        m == Len(calls[expr.span.lo].arguments)
    IN IF n <= m THEN n ELSE m

\* check_expr panics: arguments[1] or fields.arguments[i] is out of bounds
Panics(expr) ==
    \/ IsQueryCall(expr) /\ Len(expr.arguments) < 2
    \/ ReachesLoop(expr) /\ Len(TypesOf(expr)) > Len(calls[expr.span.lo].arguments)

\* SqlError::check_expr: the late pass visits an expression
CheckExpr(expr) ==
    LET emitted ==
            IF ReachesLoop(expr)
            THEN LET fields == calls[expr.span.lo]
                     table == sql_tables[fields.table_name]
                 IN Concat([i \in 1..Completed(expr) |->
                        CheckPlaceholder(fields, table, i, TypesOf(expr)[i], expr.span)])
            ELSE <<>>
    IN /\ op.name # "check_expr"
       /\ sess' = sess \o emitted
       /\ op' = [name |-> "check_expr", pc |-> IF Panics(expr) THEN "panicked" ELSE "done",
                 expr |-> expr, from |-> Len(sess)]
       /\ UNCHANGED <<sql_tables, calls, analyze_done>>

(***************************************************************************)
(* res applied to every list of diagnostics of at most MaxErrors items.    *)
(***************************************************************************)
\* the positions the sample diagnostics sit at
SampleSpans == {MkSpan(1, 5, "NO_EXPANSION"), MkSpan(7, 9, "NO_EXPANSION")}

\* the diagnostics the constructors of Error build
SampleErrors ==
    UNION {{ErrorNew(<<"m">>, p), ErrorNewHelp(<<"m">>, p), ErrorNewNote(<<"m">>, p),
            ErrorNewWarning(<<"m">>, p), ErrorNewWithCode(<<"m">>, p, "E0412")} : p \in SampleSpans}

\* the values res is asked to wrap
SampleValues == {"unit", "query"}

Idle == [name |-> "idle", pc |-> "done"]

InitCommon ==
    /\ sql_tables = <<>>
    /\ calls = <<>>
    /\ analyze_done = FALSE
    /\ sess = <<>>

InitRes ==
    /\ InitCommon
    /\ \E v \in SampleValues, es \in SeqUpTo(SampleErrors, MaxErrors) :
          op = [name |-> "res", pc |-> "call", result |-> v, errors |-> es, ret |-> Idle]

\* the call of res returns
ResReturn ==
    /\ op.name = "res" /\ op.pc = "call"
    /\ op' = [op EXCEPT !.pc = "done", !.ret = Res(op.result, op.errors)]
    /\ UNCHANGED <<sql_tables, calls, analyze_done, sess>>

NextRes == ResReturn

SpecRes == InitRes /\ [][NextRes]_vars

ResDone == op.name = "res" /\ op.pc = "done"

HasErrorKind(errors) == \E i \in Indices(errors) : errors[i].kind = "Error"

\* C1 (as stated): res returns Ok carrying the value iff no item of the list
\* has kind Error; a list of Warning/Note/Help items only gives success.
C1_OkIffNoErrorItem ==
    ResDone => ((op.ret = Ok(op.result)) <=> ~HasErrorKind(op.errors))

\* C1 (amended): res returns Ok carrying the value iff the list is empty; a list
\* holding any item, of whatever kind, gives Err; so a list holding an Error item
\* gives Err, and Ok implies that no item has kind Error.
C1_OkIffEmpty ==
    ResDone =>
        /\ (op.ret = Ok(op.result)) <=> (op.errors = <<>>)
        /\ (op.ret.tag = "Err") <=> (op.errors # <<>>)
        /\ HasErrorKind(op.errors) => op.ret.tag = "Err"

\* C1 witness: res has returned Err for a list that holds a Warning and no Error
C1_Witness ==
    /\ ResDone
    /\ op.errors # <<>>
    /\ ~HasErrorKind(op.errors)
    /\ \E i \in Indices(op.errors) : op.errors[i].kind = "Warning"
    /\ op.ret.tag = "Err"

\* C2: res never returns Err with an empty list; given the empty list it returns
\* Ok holding exactly the value passed; an Err holds the list passed, same items
\* in the same order.
C2_ErrNonEmptySameList ==
    ResDone =>
        /\ op.ret.tag = "Err" => (op.ret.errors # <<>> /\ op.ret.errors = op.errors)
        /\ op.errors = <<>> => op.ret = Ok(op.result)
        /\ op.ret.tag \in {"Ok", "Err"}

\* C2 witness: an Err of two or more items, of different kinds, has been returned
C2_Witness ==
    /\ ResDone
    /\ op.ret.tag = "Err"
    /\ Len(op.ret.errors) >= 2
    /\ op.ret.errors[1].kind # op.ret.errors[2].kind

(***************************************************************************)
(* check_type applied to every pair of a column type and an argument type. *)
(***************************************************************************)
\* where the argument and the macro call of the sample comparison sit
SamplePosition == MkSpan(12, 14, "NO_EXPANSION")
SampleNotePosition == MkSpan(10, 20, "sql!")

InitType ==
    /\ InitCommon
    /\ \E ft \in Types, et \in HostTypes :
          op = [name |-> "check_type", pc |-> "call", field_type |-> ft,
                expected_type |-> et, position |-> SamplePosition,
                note_position |-> SampleNotePosition, ret |-> FALSE]

\* the call of check_type returns: ret is what same_type answered
CheckTypeReturn ==
    /\ op.name = "check_type" /\ op.pc = "call"
    /\ sess' = sess \o CheckType(op.field_type, op.expected_type, op.position, op.note_position)
    /\ op' = [op EXCEPT !.pc = "done", !.ret = SameType(op.field_type, op.expected_type)]
    /\ UNCHANGED <<sql_tables, calls, analyze_done>>

NextType == CheckTypeReturn

SpecType == InitType /\ [][NextType]_vars

CheckTypeDone == op.name = "check_type" /\ op.pc = "done"

\* the rows of the acceptance table for the column types that wrap nothing
TableAccepts(field_type, expected_type) ==
    \/ expected_type = TyI32 /\ field_type \in {MkType("Serial", ""), MkType("I32", "")}
    \/ expected_type = TyI64 /\ field_type = MkType("I64", "")
    \/ expected_type = TyRefStr /\ field_type = MkType("String", "")

\* C3: for a column type that wraps no other type, the comparison accepts the
\* pair exactly when the acceptance table lists it: i32 for Serial and I32,
\* i64 for I64, &str for String, and nothing else; a mismatch is reported
\* exactly for the rejected pairs.
C3_AcceptanceTable ==
    (CheckTypeDone /\ op.field_type \in NonWrapperTypes) =>
        /\ op.ret <=> TableAccepts(op.field_type, op.expected_type)
        /\ (sess = <<>>) <=> TableAccepts(op.field_type, op.expected_type)

\* C3 witness: an i32 argument has been accepted for a Serial column
C3_Witness ==
    /\ CheckTypeDone
    /\ op.field_type = MkType("Serial", "")
    /\ op.expected_type = TyI32
    /\ op.ret
    /\ sess = <<>>

\* the argument types the table's Optional(T) row accepts
OptionalAccepts(field_type, expected_type) ==
    /\ field_type.tag = "Optional"
    /\ \E a \in HostTypes :
          /\ TableAccepts(MkType(field_type.arg, ""), a)
          /\ expected_type \in {a, OptionOf(a)}

(***************************************************************************)
(* The early pass: tables are registered and exit_lint_attrs is invoked,   *)
(* in any order.                                                           *)
(***************************************************************************)
Init ==
    /\ InitCommon
    /\ op = Idle

Next ==
    \/ \E t \in TableNames, types \in SeqUpTo(FieldTypes, MaxFields) \ {<<>>} :
          Register(t, Declaration(t, types))
    \/ ExitLintAttrs

Spec == Init /\ [][Next]_vars

\* exit_lint_attrs has just run the analysis of the registered tables
AnalysisRan == op.name = "exit_lint_attrs" /\ ~op.done

\* the errors the analysis returned for the i-th table it visited
ErrorsOf(i) == IF op.results[i].tag = "Err" THEN op.results[i].errors ELSE <<>>

\* C9: the analysis of a table that has no Serial field produces the Warning
\* `No primary key found` for it, and produces none for a table that has one.
C9_NoPrimaryKeyWarning ==
    AnalysisRan =>
        \A i \in Indices(op.tables) :
            (PrimaryKeyCount(sql_tables[op.tables[i]]) = 0)
                <=> (\E j \in Indices(ErrorsOf(i)) :
                        /\ ErrorsOf(i)[j].kind = "Warning"
                        /\ ErrorsOf(i)[j].message[1] = "No primary key found")

\* C10: a table whose declaration holds two or more Serial fields is not
\* accepted without a diagnostic: its analysis does not return a clean Ok.
C10_AtMostOneSerial ==
    AnalysisRan =>
        \A i \in Indices(op.tables) :
            PrimaryKeyCount(sql_tables[op.tables[i]]) >= 2 => op.results[i].tag = "Err"

\* the fields of the i-th table the analysis visited
FieldsOf(i) == sql_tables[op.tables[i]]

\* the places of the errors of the i-th table that hold an E0412 error at `span`
UnsupportedAt(i, span) ==
    {j \in Indices(ErrorsOf(i)) :
        /\ ErrorsOf(i)[j].kind = "Error"
        /\ ErrorsOf(i)[j].code = "E0412"
        /\ ErrorsOf(i)[j].position = span}

\* C11: the analysis of a table reports, for every field of type
\* UnsupportedType(name), exactly one Error with code E0412 at the span of the
\* field, naming the type, and none for a field of another type; the analysis
\* of a table that holds such a field returns failure, and the error reaches
\* the session as an error with that code.
C11_UnsupportedTypeError ==
    AnalysisRan =>
        \A i \in Indices(op.tables) :
            \A k \in Indices(FieldsOf(i)) :
                IF FieldsOf(i)[k].node.tag = "UnsupportedType"
                THEN /\ Cardinality(UnsupportedAt(i, FieldsOf(i)[k].span)) = 1
                     /\ \A j \in UnsupportedAt(i, FieldsOf(i)[k].span) :
                            ErrorsOf(i)[j].message[2] = FieldsOf(i)[k].node.arg
                     /\ op.results[i].tag = "Err"
                     /\ \E j \in Indices(sess) :
                            /\ sess[j].method = "span_err_with_code"
                            /\ sess[j].code = "E0412"
                            /\ sess[j].position = FieldsOf(i)[k].span
                ELSE UnsupportedAt(i, FieldsOf(i)[k].span) = {}

\* C11 witness: a table with an unsupported field next to a sound one was
\* analysed and got failure
C11_Witness ==
    /\ AnalysisRan
    /\ \E i \in Indices(op.tables) :
          /\ Len(FieldsOf(i)) = 2
          /\ FieldsOf(i)[1].node = MkType("String", "")
          /\ FieldsOf(i)[2].node.tag = "UnsupportedType"
          /\ op.results[i].tag = "Err"
          /\ UnsupportedAt(i, FieldsOf(i)[2].span) # {}

\* the places of the errors of the i-th table that hold the unknown-table
\* error at `span`
UnknownTableAt(i, span) ==
    {j \in Indices(ErrorsOf(i)) :
        /\ ErrorsOf(i)[j].kind = "Error"
        /\ ErrorsOf(i)[j].message[1] = "does not name an SQL table"
        /\ ErrorsOf(i)[j].position = span}

\* the field refers to a table: its type is ForeignKey(T) or Custom(T)
RefersToTable(field) == field.node.tag \in {"ForeignKey", "Custom"}

\* C12: the analysis of a table reports the unknown-table error, at the span
\* of the field, for every field of type ForeignKey(T) or Custom(T) with T not
\* registered, and none for a field whose T is registered; so when the
\* analysis returns success every ForeignKey/Custom field refers to a
\* registered table.
C12_UnknownTableReported ==
    AnalysisRan =>
        \A i \in Indices(op.tables) :
            /\ \A k \in Indices(FieldsOf(i)) :
                  RefersToTable(FieldsOf(i)[k]) =>
                     ((FieldsOf(i)[k].node.arg \notin DOMAIN sql_tables)
                        <=> UnknownTableAt(i, FieldsOf(i)[k].span) # {})
            /\ op.results[i].tag = "Ok" =>
                  \A k \in Indices(FieldsOf(i)) :
                      RefersToTable(FieldsOf(i)[k]) =>
                          FieldsOf(i)[k].node.arg \in DOMAIN sql_tables

\* the field is faulty on its own: an unsupported type, or a Custom type whose
\* table is not registered
IsFaulty(field) ==
    \/ field.node.tag = "UnsupportedType"
    \/ field.node.tag = "Custom" /\ field.node.arg \notin DOMAIN sql_tables

\* the spans of the faulty fields of the i-th table, in field order
FaultySpans(i) ==
    LET faulty == SelectSeq(FieldsOf(i), LAMBDA f : IsFaulty(f))
    IN [j \in Indices(faulty) |-> faulty[j].span]

\* the positions of the Error items returned for the i-th table, in order
ErrorPositions(i) ==
    LET errors == SelectSeq(ErrorsOf(i), LAMBDA e : e.kind = "Error")
    IN [j \in Indices(errors) |-> errors[j].position]

\* C13: the analysis of a table collects the diagnostics of all its faulty
\* fields: the Error items of the result sit at the spans of the faulty
\* fields, one per faulty field, in field order, and the result is a failure
\* when there is one; the analysis does not stop at the first faulty field.
C13_AllFaultyFieldsReported ==
    AnalysisRan =>
        \A i \in Indices(op.tables) :
            /\ ErrorPositions(i) = FaultySpans(i)
            /\ FaultySpans(i) # <<>> => op.results[i].tag = "Err"

\* C13 witness: a table whose two fields are both faulty, one of each sort,
\* got both errors
C13_Witness ==
    /\ AnalysisRan
    /\ \E i \in Indices(op.tables) :
          /\ Len(FaultySpans(i)) = 2
          /\ \E k \in Indices(FieldsOf(i)) : FieldsOf(i)[k].node.tag = "Custom"
          /\ \E k \in Indices(FieldsOf(i)) : FieldsOf(i)[k].node.tag = "UnsupportedType"
          /\ Len(ErrorPositions(i)) = 2
          /\ ErrorPositions(i)[1] # ErrorPositions(i)[2]

\* the early pass with its scheduling: the compiler calls exit_lint_attrs for
\* the attributes of every item it walks, so an invocation that is due happens
SpecFair == Init /\ [][Next]_vars /\ WF_vars(ExitLintAttrs)

\* table t is registered and has a faulty field
FaultyTable(t) ==
    /\ t \in DOMAIN sql_tables
    /\ \E k \in Indices(sql_tables[t]) : IsFaulty(sql_tables[t][k])

\* an error has been reported to the session at the span of every faulty field
\* of table t
Reported(t) ==
    /\ t \in DOMAIN sql_tables
    /\ \A k \in Indices(sql_tables[t]) :
          IsFaulty(sql_tables[t][k]) =>
              \E j \in Indices(sess) :
                  /\ sess[j].method \in {"span_err", "span_err_with_code"}
                  /\ sess[j].position = sql_tables[t][k].span

\* C16: in every interleaving of registrations and invocations of
\* exit_lint_attrs, a registered table that has a faulty field eventually has
\* its diagnostics reported (or stops being faulty because the table its
\* Custom field names gets registered), also when it was registered after the
\* first invocation.
C16_EventuallyReported ==
    \A t \in TableNames : FaultyTable(t) ~> (Reported(t) \/ ~FaultyTable(t))

\* no diagnostic occurs twice in what the session was handed
NoDuplicates == \A i, j \in Indices(sess) : i # j => sess[i] # sess[j]

\* C19: analyze_done goes from false to true and never back; once it is true
\* an invocation of exit_lint_attrs analyses nothing and reports nothing; so
\* over any sequence of invocations no diagnostic of a table is reported twice.
C19_AnalysisOnce ==
    [][/\ analyze_done => (analyze_done' /\ sess' = sess)
       /\ (op'.name = "exit_lint_attrs" /\ op' # op) => (analyze_done' /\ op'.done = analyze_done)
       /\ NoDuplicates']_vars

\* C19 witness: a later invocation found the flag set and left the session
\* alone, with a faulty table registered and its diagnostics reported once
C19_Witness ==
    /\ op.name = "exit_lint_attrs"
    /\ op.done
    /\ op.results = <<>>
    /\ sess # <<>>
    /\ NoDuplicates
    /\ \E t \in TableNames : FaultyTable(t) /\ Reported(t)

(***************************************************************************)
(* The late pass: the tables and the query sites of the test crate are     *)
(* expanded in any order, then check_expr visits an expression.            *)
(***************************************************************************)
\* the declarations of tests/select_expr.rs
TestSchema ==
    [TableSelectExpr |->
        <<MkField("id", MkType("Serial", ""), MkSpan(1010, 1015, "NO_EXPANSION")),
          MkField("field1", MkType("String", ""), MkSpan(1020, 1025, "NO_EXPANSION")),
          MkField("field2", MkType("I32", ""), MkSpan(1030, 1035, "NO_EXPANSION")),
          MkField("related_field", MkType("ForeignKey", "RelatedTableSelectExpr"),
                  MkSpan(1040, 1045, "NO_EXPANSION")),
          MkField("optional_field", MkType("Optional", "I32"),
                  MkSpan(1050, 1055, "NO_EXPANSION")),
          MkField("datetime", MkType("DateTime", ""), MkSpan(1060, 1065, "NO_EXPANSION"))>>,
     RelatedTableSelectExpr |->
        <<MkField("id", MkType("Serial", ""), MkSpan(1110, 1115, "NO_EXPANSION")),
          MkField("field1", MkType("I32", ""), MkSpan(1120, 1125, "NO_EXPANSION"))>>]

\* where the query site of the crate starts
SiteLo == 2000

\* the columns the placeholders of the site are compared with; field3 is no
\* column of either table, i64 is the name given to index and range operands
PlaceholderNames ==
    {"field1", "related_field", "optional_field", "i64", "field3"}

\* the types of the arguments at the site
ArgumentTys == {TyI32, TyI64, TyRefStr, MkTy("TyStruct", "RelatedTableSelectExpr")}

\* the elements of the argument vector: &e, or a bare e
Elements == {AddrOf(PathExpr(ty)) : ty \in ArgumentTys} \cup {PathExpr(TyI32)}

\* the receiver of the method calls
Receiver == PathExpr(MkTy("TyStruct", "Connection"))

\* the argument lists of a query or execute call: the receiver alone, the
\* receiver and a string, the receiver and &[elements]
ArgumentLists ==
    {<<Receiver>>, <<Receiver, PathExpr(TyRefStr)>>}
        \cup {<<Receiver, AddrOf(VecExpr(es))>> : es \in SeqUpTo(Elements, MaxElements)}

\* the span of the method call at the site
SiteSpan == MkSpan(SiteLo, SiteLo + 90, "sql!")

\* the expressions the late pass visits: a path, a call of another method, the
\* query and execute calls
Exprs ==
    {PathExpr(TyI32), MethodCall("prepare", <<Receiver, PathExpr(TyRefStr)>>, SiteSpan)}
        \cup {MethodCall(name, arguments, SiteSpan) :
                name \in {"query", "execute"}, arguments \in ArgumentLists}

NextLate ==
    \/ \E t \in DOMAIN TestSchema : Register(t, TestSchema[t])
    \/ \E t \in DOMAIN TestSchema, names \in SeqUpTo(PlaceholderNames, MaxPlaceholders) :
          RecordCall(SiteLo, t, names)
    \/ \E expr \in Exprs : CheckExpr(expr)

SpecLate == Init /\ [][NextLate]_vars

\* check_expr has visited an expression and reached the loop over the types
Looped == op.name = "check_expr" /\ ReachesLoop(op.expr)

\* the diagnostics the visit sent to the session
Emitted == SubSeq(sess, op.from + 1, Len(sess))

\* the placeholder record of the visited site, and its i-th placeholder
Site == calls[op.expr.span.lo]
PlaceholderAt(i) == Site.arguments[i]

\* the sub-span of the argument of the i-th placeholder
PositionOf(i) == MkSpan(PlaceholderAt(i).low, PlaceholderAt(i).high, "NO_EXPANSION")

\* the column type the i-th placeholder expects: <<>> when the name is neither
\* i64 nor a column of the table of the site
ExpectedOf(i) ==
    IF PlaceholderAt(i).name = "i64"
    THEN <<MkType("I64", "")>>
    ELSE LET column == FieldsGet(sql_tables[Site.table_name], PlaceholderAt(i).name)
         IN IF column = <<>> THEN <<>> ELSE <<column[1].node>>

\* the type of the argument the verifier pairs with the i-th placeholder; at a
\* call generated by sql! it is the type of the i-th element of the vector
ArgumentOf(i) == TypesOf(op.expr)[i]

\* the places of Emitted that hold an E0308 error at span `position`
MismatchesAt(position) ==
    {j \in Indices(Emitted) :
        /\ Emitted[j].method = "span_err_with_code"
        /\ Emitted[j].code = "E0308"
        /\ Emitted[j].position = position}

IsNote(j) == Emitted[j].method = "fileline_note"

\* the call is of the shape sql! generates: every element is &e, one per placeholder
WellFormedSite ==
    /\ Looped
    /\ op.expr.arguments[2].node = "ExprAddrOf"
    /\ op.expr.arguments[2].of.node = "ExprVec"
    /\ \A k \in Indices(op.expr.arguments[2].of.elements) :
          op.expr.arguments[2].of.elements[k].node = "ExprAddrOf"
    /\ Len(op.expr.arguments[2].of.elements) = Len(Site.arguments)

\* C4: for a placeholder whose column has type Optional(T), an argument of the
\* nullable wrapper over T and an argument of type T itself are both accepted:
\* no type mismatch is reported for the placeholder.
C4_OptionalAccepted ==
    Looped =>
        \A i \in 1..Completed(op.expr) :
            (ExpectedOf(i) # <<>> /\ OptionalAccepts(ExpectedOf(i)[1], ArgumentOf(i)))
                => MismatchesAt(PositionOf(i)) = {}

\* C5: for a placeholder whose column has type ForeignKey(T), an argument that
\* is a record of table T is accepted: no type mismatch is reported for it.
C5_ForeignKeyAccepted ==
    Looped =>
        \A i \in 1..Completed(op.expr) :
            (/\ ExpectedOf(i) # <<>>
             /\ ExpectedOf(i)[1].tag = "ForeignKey"
             /\ ArgumentOf(i) = MkTy("TyStruct", ExpectedOf(i)[1].arg))
                => MismatchesAt(PositionOf(i)) = {}

\* C6: for every placeholder whose argument type is not accepted for its
\* expected column type, exactly one E0308 error is emitted at the sub-span of
\* the argument, followed at once by a note at the span of the call; for a
\* placeholder whose argument type is accepted no E0308 error is emitted; and
\* every note emitted follows such an error (one note per mismatch).
C6_MismatchErrorAndNote ==
    Looped =>
        /\ \A i \in 1..Completed(op.expr) :
              ExpectedOf(i) # <<>> =>
                 IF ~SameType(ExpectedOf(i)[1], ArgumentOf(i))
                 THEN /\ Cardinality(MismatchesAt(PositionOf(i))) = 1
                      /\ \A j \in MismatchesAt(PositionOf(i)) :
                            /\ j + 1 <= Len(Emitted)
                            /\ IsNote(j + 1)
                            /\ Emitted[j + 1].position = op.expr.span
                 ELSE MismatchesAt(PositionOf(i)) = {}
        /\ \A j \in Indices(Emitted) :
              IsNote(j) => (j > 1 /\ Emitted[j - 1].code = "E0308")

\* C6 witness: at a call of the shape sql! generates, with two placeholders, one
\* argument was accepted and the other got the error and the note
C6_Witness ==
    /\ WellFormedSite
    /\ Len(Site.arguments) = 2
    /\ \A i \in 1..2 : ExpectedOf(i) # <<>>
    /\ SameType(ExpectedOf(1)[1], ArgumentOf(1))
    /\ ~SameType(ExpectedOf(2)[1], ArgumentOf(2))
    /\ Len(Emitted) = 2
    /\ MismatchesAt(PositionOf(2)) = {1}
    /\ IsNote(2)

\* the error reported for a placeholder whose column the table does not have
UnknownFieldError(i) ==
    Emit("span_err", PositionOf(i),
         <<"attempted access of field", PlaceholderAt(i).name, Site.table_name>>, NoCode)

\* C7: for every placeholder whose expected column name is not i64 and is not a
\* column of the table of the query, the error "attempted access of field X on
\* type T" is emitted once at the span of the placeholder, with X the recorded
\* name and T the table name, and no E0308 error is emitted for the placeholder.
C7_UnknownFieldError ==
    Looped =>
        \A i \in 1..Completed(op.expr) :
            ExpectedOf(i) = <<>> =>
               /\ Cardinality({j \in Indices(Emitted) : Emitted[j] = UnknownFieldError(i)}) = 1
               /\ MismatchesAt(PositionOf(i)) = {}

\* C7 witness: at a call of the shape sql! generates, a placeholder named after
\* no column got the error, next to a placeholder that was compared
C7_Witness ==
    /\ WellFormedSite
    /\ Len(Site.arguments) = 2
    /\ ExpectedOf(1) # <<>>
    /\ ExpectedOf(2) = <<>>
    /\ PlaceholderAt(2).name = "field3"
    /\ \E j \in Indices(Emitted) : Emitted[j] = UnknownFieldError(2)

\* the names of the columns of the table of the visited site
ColumnNames == {f.name : f \in Range(sql_tables[Site.table_name])}

\* C8: whenever a `did you mean Y?` help is emitted for an unknown field X of
\* table T, Y is a column of T and Y differs from X.
C8_HelpNamesAColumn ==
    Looped =>
        \A j \in Indices(Emitted) :
            Emitted[j].method = "span_help" =>
                \A i \in 1..Completed(op.expr) :
                    PositionOf(i) = Emitted[j].position =>
                        /\ Emitted[j].message[2] \in ColumnNames
                        /\ Emitted[j].message[2] # PlaceholderAt(i).name

\* the visited call reached the loop and its argument list is &[elements]
VectorCall ==
    /\ Looped
    /\ op.expr.arguments[2].node = "ExprAddrOf"
    /\ op.expr.arguments[2].of.node = "ExprVec"

\* the elements of the argument vector of the visited call
ElementsOf == op.expr.arguments[2].of.elements

\* the element at index i of the argument vector is one whose type is extracted
Extracted(i) == i \in Indices(ElementsOf) /\ ElementsOf[i].node = "ExprAddrOf"

\* C14: the argument at index i of the argument list is checked against the
\* placeholder with ordinal i, for every i, also when the list holds elements
\* that are not address-of expressions: placeholder i gets the E0308 error
\* exactly when the element at index i is extracted and its type is not
\* accepted for the column of placeholder i, and the error names that type.
C14_PairingPreservesPosition ==
    VectorCall =>
        \A i \in Indices(Site.arguments) :
            ExpectedOf(i) # <<>> =>
                IF Extracted(i) /\ ~SameType(ExpectedOf(i)[1], ElementsOf[i].of.ty)
                THEN /\ Cardinality(MismatchesAt(PositionOf(i))) = 1
                     /\ \A j \in MismatchesAt(PositionOf(i)) :
                           Emitted[j].message
                              = <<"mismatched types", ExpectedOf(i)[1], ElementsOf[i].of.ty>>
                ELSE MismatchesAt(PositionOf(i)) = {}

\* the placeholders of the site that are index or range operands
IsI64Placeholder(i) == PlaceholderAt(i).name = "i64"

\* the places of Emitted that hold the unknown-field error at span `position`
UnknownFieldAt(position) ==
    {j \in Indices(Emitted) :
        Emitted[j].method = "span_err" /\ Emitted[j].position = position}

\* C15: a placeholder recorded with the name i64 is compared with I64 whatever
\* the columns of the table are: a 64-bit integer argument gets no diagnostic,
\* an argument of any other type gets exactly one E0308 error that names I64 as
\* the expected type, and the name is never looked up in the table (no
\* unknown-field error, no help, for the placeholder).
C15_SyntheticI64 ==
    Looped =>
        \A i \in 1..Completed(op.expr) :
            IsI64Placeholder(i) =>
                /\ UnknownFieldAt(PositionOf(i)) = {}
                /\ \A j \in Indices(Emitted) :
                      Emitted[j].position = PositionOf(i) => Emitted[j].method # "span_help"
                /\ IF ArgumentOf(i) = TyI64
                   THEN \A j \in Indices(Emitted) : Emitted[j].position # PositionOf(i)
                   ELSE /\ Cardinality(MismatchesAt(PositionOf(i))) = 1
                        /\ \A j \in MismatchesAt(PositionOf(i)) :
                              Emitted[j].message
                                 = <<"mismatched types", MkType("I64", ""), ArgumentOf(i)>>

\* C15 witness: at a call of the shape sql! generates, of two i64 placeholders
\* the one given an i64 was accepted and the one given a &str got the error
C15_Witness ==
    /\ WellFormedSite
    /\ Len(Site.arguments) = 2
    /\ IsI64Placeholder(1) /\ IsI64Placeholder(2)
    /\ "i64" \notin ColumnNames
    /\ ArgumentOf(1) = TyI64
    /\ ArgumentOf(2) = TyRefStr
    /\ MismatchesAt(PositionOf(1)) = {}
    /\ MismatchesAt(PositionOf(2)) = {1}
    /\ Len(Emitted) = 2

\* C20: check_expr never indexes past the end of a list: at a query/execute
\* call the argument list has the element arguments[1] the code reads, and at a
\* call whose start position has a placeholder record and whose table is
\* registered every index of the extracted types is an index of the recorded
\* placeholders.
C20_NoOutOfBounds ==
    op.name = "check_expr" =>
        /\ IsQueryCall(op.expr) => Len(op.expr.arguments) >= 2
        /\ Looped => \A i \in Indices(TypesOf(op.expr)) : i \in Indices(Site.arguments)
        /\ op.pc # "panicked"

(***************************************************************************)
(* The query parser and the SQL generator, for the filter of a select: the *)
(* tokens of the filter expression are parsed into a FilterTree, the tree  *)
(* is emitted as the WHERE clause, and the database evaluates the clause   *)
(* on a row.                                                               *)
(***************************************************************************)
\* most operators in a filter expression
MaxOperators == 2

\* the conditions (compare leaves) of the filter expressions
Conditions == {"A", "B", "C"}

\* the boolean operators of the filter grammar
FilterOperators == {"&&", "||"}

\* FilterTree: Leaf, And, Or
Leaf(cond) == [tag |-> "Leaf", cond |-> cond, lhs |-> <<>>, rhs |-> <<>>]
And(lhs, rhs) == [tag |-> "And", cond |-> "", lhs |-> <<lhs>>, rhs |-> <<rhs>>]
Or(lhs, rhs) == [tag |-> "Or", cond |-> "", lhs |-> <<lhs>>, rhs |-> <<rhs>>]

\* what a parsing function hands back: the tree and the tokens left
Parsed(node, rest) == [node |-> node, rest |-> rest]

RECURSIVE ParseOr(_), ParseOrRest(_, _), ParseAnd(_), ParseAndRest(_, _), ParsePrimary(_)
\* primary := "(" expr ")" | compare
ParsePrimary(tokens) ==
    IF Head(tokens) = "("
    THEN LET inner == ParseOr(Tail(tokens))
         IN Parsed(inner.node, Tail(inner.rest))
    ELSE Parsed(Leaf(Head(tokens)), Tail(tokens))

\* ( "&&" unary )*
ParseAndRest(lhs, tokens) ==
    IF tokens # <<>> /\ Head(tokens) = "&&"
    THEN LET rhs == ParsePrimary(Tail(tokens))
         IN ParseAndRest(And(lhs, rhs.node), rhs.rest)
    ELSE Parsed(lhs, tokens)

\* and := unary ( "&&" unary )*
ParseAnd(tokens) ==
    LET lhs == ParsePrimary(tokens)
    IN ParseAndRest(lhs.node, lhs.rest)

\* ( "||" and_expr )*
ParseOrRest(lhs, tokens) ==
    IF tokens # <<>> /\ Head(tokens) = "||"
    THEN LET rhs == ParseAnd(Tail(tokens))
         IN ParseOrRest(Or(lhs, rhs.node), rhs.rest)
    ELSE Parsed(lhs, tokens)

\* or := and_expr ( "||" and_expr )*
ParseOr(tokens) ==
    LET lhs == ParseAnd(tokens)
    IN ParseOrRest(lhs.node, lhs.rest)

RECURSIVE ParseLeftToRight(_, _)
\* the operators taken as they come, none binding tighter than the other
ParseLeftToRight(lhs, tokens) ==
    IF tokens # <<>> /\ Head(tokens) \in FilterOperators
    THEN LET rhs == ParsePrimary(Tail(tokens))
         IN ParseLeftToRight(IF Head(tokens) = "&&" THEN And(lhs, rhs.node)
                                                    ELSE Or(lhs, rhs.node),
                             rhs.rest)
    ELSE lhs

\* a plausible slip: && and || parsed with the same precedence, left to right
ParseFilterNoPrecedence(tokens) ==
    LET lhs == ParsePrimary(tokens)
    IN ParseLeftToRight(lhs.node, lhs.rest)

\* expr := or_expr: the FilterTree of a filter expression
ParseFilter(tokens) == ParseOr(tokens).node

\* the SQL spelling of an operator of the tree
SqlOperator(tag) == IF tag = "And" THEN "AND" ELSE "OR"

RECURSIVE GenerateFilter(_)
\* the WHERE clause of a FilterTree: the children joined with AND / OR, a
\* child of the other operator wrapped in parentheses
GenerateFilter(tree) ==
    IF tree.tag = "Leaf"
    THEN <<tree.cond>>
    ELSE LET Wrap(child) ==
                 IF child.tag \in {"And", "Or"} /\ child.tag # tree.tag
                 THEN <<"(">> \o GenerateFilter(child) \o <<")">>
                 ELSE GenerateFilter(child)
         IN Wrap(tree.lhs[1]) \o <<SqlOperator(tree.tag)>> \o Wrap(tree.rhs[1])

\* what the evaluation of a part of a clause hands back: its truth value on
\* the row, and the tokens left
Evaluated(val, rest) == [val |-> val, rest |-> rest]

RECURSIVE SqlOr(_, _), SqlOrRest(_, _, _), SqlAnd(_, _), SqlAndRest(_, _, _), SqlPrimary(_, _)
\* the database's reading of a WHERE clause: AND binds tighter than OR,
\* parentheses group; row gives the truth value of each condition
SqlPrimary(sql, row) ==
    IF Head(sql) = "("
    THEN LET inner == SqlOr(Tail(sql), row)
         IN Evaluated(inner.val, Tail(inner.rest))
    ELSE Evaluated(row[Head(sql)], Tail(sql))

SqlAndRest(val, sql, row) ==
    IF sql # <<>> /\ Head(sql) = "AND"
    THEN LET rhs == SqlPrimary(Tail(sql), row)
         IN SqlAndRest(val /\ rhs.val, rhs.rest, row)
    ELSE Evaluated(val, sql)

SqlAnd(sql, row) ==
    LET lhs == SqlPrimary(sql, row)
    IN SqlAndRest(lhs.val, lhs.rest, row)

SqlOrRest(val, sql, row) ==
    IF sql # <<>> /\ Head(sql) = "OR"
    THEN LET rhs == SqlAnd(Tail(sql), row)
         IN SqlOrRest(val \/ rhs.val, rhs.rest, row)
    ELSE Evaluated(val, sql)

SqlOr(sql, row) ==
    LET lhs == SqlAnd(sql, row)
    IN SqlOrRest(lhs.val, lhs.rest, row)

\* the row is selected by the WHERE clause
Selects(sql, row) == SqlOr(sql, row).val

\* the rows a query meets: every truth assignment of the conditions
Rows == [Conditions -> BOOLEAN]

\* the tokens of the chain conds[1] ops[1] conds[2] ..., with the conditions
\* from..to put in parentheses when from < to
FilterTokens(conds, ops, from, to) ==
    Concat([p \in Indices(conds) |->
        (IF p = from /\ from < to THEN <<"(">> ELSE <<>>)
            \o <<conds[p]>>
            \o (IF p = to /\ from < to THEN <<")">> ELSE <<>>)
            \o (IF p <= Len(ops) THEN <<ops[p]>> ELSE <<>>)])

\* the filter expressions: chains of at most MaxOperators operators, with no
\* parentheses or with one parenthesised group
FilterSources ==
    UNION {{FilterTokens(conds, ops, from, to) :
                conds \in [1..(k + 1) -> Conditions], ops \in [1..k -> FilterOperators],
                from \in 1..(k + 1), to \in 1..(k + 1)} : k \in 0..MaxOperators}

InitFilter ==
    /\ InitCommon
    /\ \E tokens \in FilterSources :
          op = [name |-> "filter", pc |-> "parse", tokens |-> tokens,
                tree |-> Leaf("A"), sql |-> <<>>]

\* the parser turns the filter expression into its FilterTree
ParseStep ==
    /\ op.name = "filter" /\ op.pc = "parse"
    /\ op' = [op EXCEPT !.pc = "generate", !.tree = ParseFilter(op.tokens)]
    /\ UNCHANGED <<sql_tables, calls, analyze_done, sess>>

\* the generator emits the WHERE clause of the tree
GenerateStep ==
    /\ op.name = "filter" /\ op.pc = "generate"
    /\ op' = [op EXCEPT !.pc = "done", !.sql = GenerateFilter(op.tree)]
    /\ UNCHANGED <<sql_tables, calls, analyze_done, sess>>

NextFilter == ParseStep \/ GenerateStep

SpecFilter == InitFilter /\ [][NextFilter]_vars

FilterDone == op.name = "filter" /\ op.pc = "done"

\* C17: && binds tighter than ||, and parentheses override: for all conditions
\* a, b, c the clause emitted for `a || b && c` and the one emitted for
\* `a || (b && c)` both select exactly the rows where a holds or both b and c
\* hold; the clause emitted for `(a || b) && c` has the OR group in
\* parentheses and selects exactly the rows where a or b holds, and c holds.
C17_Precedence ==
    FilterDone =>
        \A a, b, c \in Conditions :
            /\ op.tokens \in {<<a, "||", b, "&&", c>>, <<a, "||", "(", b, "&&", c, ")">>} =>
                  \A row \in Rows : Selects(op.sql, row) <=> (row[a] \/ (row[b] /\ row[c]))
            /\ op.tokens = <<"(", a, "||", b, ")", "&&", c>> =>
                  /\ op.sql = <<"(", a, "OR", b, ")", "AND", c>>
                  /\ \A row \in Rows : Selects(op.sql, row) <=> ((row[a] \/ row[b]) /\ row[c])

\* C17 witness: the clause of `A || B && C` has been emitted, and some row
\* tells it from the reading (A || B) && C
C17_Witness ==
    /\ FilterDone
    /\ op.tokens = <<"A", "||", "B", "&&", "C">>
    /\ \E row \in Rows :
          /\ Selects(op.sql, row)
          /\ ~((row["A"] \/ row["B"]) /\ row["C"])

(***************************************************************************)
(* The SQL generator, for the index or range of a select: the range is     *)
(* emitted as the LIMIT / OFFSET clause and the database applies the       *)
(* clause to the rows of the unsliced select.                              *)
(***************************************************************************)
\* largest index or range operand
MaxIndex == 3
\* most rows of the unsliced select
MaxRows == 4

\* limit_offset of the Select: start and end are <<>> when absent, single is
\* set for [i]
MkLimitOffset(start, end, single) == [start |-> start, end |-> end, single |-> single]

\* an item of the clause: LIMIT n or OFFSET m
SqlItem(keyword, value) == [keyword |-> keyword, value |-> value]

\* a plausible slip: the end of the range is emitted as the limit
GenerateLimitOffsetEnd(limit_offset) ==
    IF limit_offset.single
    THEN <<SqlItem("LIMIT", 1), SqlItem("OFFSET", limit_offset.start[1])>>
    ELSE IF limit_offset.start # <<>> /\ limit_offset.end # <<>>
    THEN <<SqlItem("LIMIT", limit_offset.end[1]), SqlItem("OFFSET", limit_offset.start[1])>>
    ELSE IF limit_offset.end # <<>>
    THEN <<SqlItem("LIMIT", limit_offset.end[1])>>
    ELSE <<SqlItem("OFFSET", limit_offset.start[1])>>

\* the generator's clause: [i] gives LIMIT 1 OFFSET i, [a..b] gives
\* LIMIT (b-a) OFFSET a, [..b] gives LIMIT b, [a..] gives OFFSET a
GenerateLimitOffset(limit_offset) ==
    IF limit_offset.single
    THEN <<SqlItem("LIMIT", 1), SqlItem("OFFSET", limit_offset.start[1])>>
    ELSE IF limit_offset.start # <<>> /\ limit_offset.end # <<>>
    THEN <<SqlItem("LIMIT", limit_offset.end[1] - limit_offset.start[1]),
           SqlItem("OFFSET", limit_offset.start[1])>>
    ELSE IF limit_offset.end # <<>>
    THEN <<SqlItem("LIMIT", limit_offset.end[1])>>
    ELSE <<SqlItem("OFFSET", limit_offset.start[1])>>

\* the value the clause gives for a keyword: <<>> when the clause has no such item
ClauseValue(sql, keyword) ==
    IF \E i \in Indices(sql) : sql[i].keyword = keyword
    THEN <<sql[CHOOSE i \in Indices(sql) : sql[i].keyword = keyword].value>>
    ELSE <<>>

\* the database applies the clause: it skips OFFSET rows, then yields at most
\* LIMIT rows
ApplyLimitOffset(rows, sql) ==
    LET offset == IF ClauseValue(sql, "OFFSET") = <<>> THEN 0 ELSE ClauseValue(sql, "OFFSET")[1]
        after == SubSeq(rows, offset + 1, Len(rows))
        limit == ClauseValue(sql, "LIMIT")
    IN IF limit = <<>> THEN after ELSE SubSeq(after, 1, Min2(limit[1], Len(after)))

\* the index and range expressions: [i], [a..b] with a <= b, [..b], [a..]
LimitOffsets ==
    {MkLimitOffset(<<i>>, <<>>, TRUE) : i \in 0..MaxIndex}
        \cup {MkLimitOffset(<<a>>, <<b>>, FALSE) : a \in 0..MaxIndex, b \in 0..MaxIndex}
        \cup {MkLimitOffset(<<>>, <<b>>, FALSE) : b \in 0..MaxIndex}
        \cup {MkLimitOffset(<<a>>, <<>>, FALSE) : a \in 0..MaxIndex}

\* the rows of the unsliced select, by id
RowsOfLength(n) == [k \in 1..n |-> k]

InitSlice ==
    /\ InitCommon
    /\ \E limit_offset \in LimitOffsets, n \in 0..MaxRows :
          /\ (limit_offset.start # <<>> /\ limit_offset.end # <<>>)
                => limit_offset.start[1] <= limit_offset.end[1]
          /\ op = [name |-> "slice", pc |-> "generate", limit_offset |-> limit_offset,
                   rows |-> RowsOfLength(n), sql |-> <<>>, result |-> <<>>]

\* the generator emits the clause of the range
GenerateSliceStep ==
    /\ op.name = "slice" /\ op.pc = "generate"
    /\ op' = [op EXCEPT !.pc = "execute", !.sql = GenerateLimitOffset(op.limit_offset)]
    /\ UNCHANGED <<sql_tables, calls, analyze_done, sess>>

\* the database runs the select with the clause
ExecuteSliceStep ==
    /\ op.name = "slice" /\ op.pc = "execute"
    /\ op' = [op EXCEPT !.pc = "done", !.result = ApplyLimitOffset(op.rows, op.sql)]
    /\ UNCHANGED <<sql_tables, calls, analyze_done, sess>>

NextSlice == GenerateSliceStep \/ ExecuteSliceStep

SpecSlice == InitSlice /\ [][NextSlice]_vars

SliceDone == op.name = "slice" /\ op.pc = "done" /\ ~op.limit_offset.single

\* the rows of the unsliced select at the zero-based positions from..(to - 1),
\* as far as there are rows
RowsBetween(rows, from, to) ==
    [k \in 1..(IF Min2(to, Len(rows)) > from THEN Min2(to, Len(rows)) - from ELSE 0)
        |-> rows[from + k]]

\* C18: for 0 <= a <= b, [a..b] is emitted as LIMIT (b-a) OFFSET a and yields
\* the rows at the zero-based positions a to b-1 of the unsliced select, at
\* most b-a of them; [..b] is emitted as LIMIT b with no offset and yields the
\* first b rows; [a..] is emitted as OFFSET a with no limit and yields every
\* row after the first a.
C18_RangeLimitOffset ==
    SliceDone =>
        LET start == op.limit_offset.start
            end == op.limit_offset.end
        IN CASE start # <<>> /\ end # <<>> ->
                    /\ op.sql = <<SqlItem("LIMIT", end[1] - start[1]),
                                  SqlItem("OFFSET", start[1])>>
                    /\ op.result = RowsBetween(op.rows, start[1], end[1])
                    /\ Len(op.result) <= end[1] - start[1]
             [] start = <<>> /\ end # <<>> ->
                    /\ op.sql = <<SqlItem("LIMIT", end[1])>>
                    /\ op.result = RowsBetween(op.rows, 0, end[1])
             [] start # <<>> /\ end = <<>> ->
                    /\ op.sql = <<SqlItem("OFFSET", start[1])>>
                    /\ op.result = RowsBetween(op.rows, start[1], Len(op.rows))

\* C18 witness: [1..3] on four rows has yielded the second and the third
C18_Witness ==
    /\ SliceDone
    /\ op.limit_offset = MkLimitOffset(<<1>>, <<3>>, FALSE)
    /\ Len(op.rows) = 4
    /\ op.result = <<2, 3>>
====
